---- MODULE Spec2Model ----
(***************************************************************************)
(* Model of dictionary_scrape.py: the environment check, the Selenium      *)
(* login, the paginated saved-word fetch, the per-word dictionary lookup   *)
(* and the final report.                                                   *)
(*                                                                         *)
(* A JSON value is a record [t, n, c, s, kv]: its type tag, then the       *)
(* number of an int, the characters of a str, the elements of a list and   *)
(* the (key, value) pairs of a dict in insertion order; the fields a type  *)
(* does not use are 0 or <<>>.  Python strings that the code edits         *)
(* (example texts) are sequences of one-character strings.                 *)
(***************************************************************************)
EXTENDS Integers, Sequences, FiniteSets, TLC

\* ------------------------------------------------------------------------
\* Bounds
\* ------------------------------------------------------------------------
MaxPages == 2        \* largest totalPages the list API reports
MaxItems == 2        \* most items on one page
MaxTotalItems == 3   \* most items over all pages of one run
MaxPieces == 3       \* raw example texts are built from at most this many fragments
MaxEx == 2           \* most examples in one generated "vis" list

\* ------------------------------------------------------------------------
\* JSON values as Python sees them
\* ------------------------------------------------------------------------
JNull == [t |-> "null", n |-> 0, c |-> <<>>, s |-> <<>>, kv |-> <<>>]
JInt(n) == [t |-> "int", n |-> n, c |-> <<>>, s |-> <<>>, kv |-> <<>>]
JStr(c) == [t |-> "str", n |-> 0, c |-> c, s |-> <<>>, kv |-> <<>>]
JList(s) == [t |-> "list", n |-> 0, c |-> <<>>, s |-> s, kv |-> <<>>]
JDict(kv) == [t |-> "dict", n |-> 0, c |-> <<>>, s |-> <<>>, kv |-> kv]
KV(k, val) == [k |-> k, val |-> val]
EmptyDict == JDict(<<>>)

EmptyStr == JStr(<<>>)
EmptyList == JList(<<>>)
KeyVis == <<"v", "i", "s">>

\* The characters of the dictionary keys the model uses (iterating a dict
\* yields its keys as strings).
KeyChars(k) ==
  CASE k = "meta" -> <<"m", "e", "t", "a">>
    [] k = "shortdef" -> <<"s", "h", "o", "r", "t", "d", "e", "f">>
    [] k = "def" -> <<"d", "e", "f">>
    [] k = "sseq" -> <<"s", "s", "e", "q">>
    [] k = "dt" -> <<"d", "t">>
    [] k = "t" -> <<"t">>
    [] OTHER -> <<"k">>

\* bool(x)
Truthy(j) ==
  CASE j.t = "null" -> FALSE
    [] j.t = "int" -> j.n # 0
    [] j.t = "str" -> Len(j.c) > 0
    [] j.t = "list" -> Len(j.s) > 0
    [] j.t = "dict" -> Len(j.kv) > 0

\* The outcome of a Python expression that may raise.
Raised == [raised |-> TRUE, val |-> JNull]
Value(j) == [raised |-> FALSE, val |-> j]

\* iter(x): the elements as a JSON list, or TypeError
PyIter(j) ==
  CASE j.t = "list" -> Value(j)
    [] j.t = "str" -> Value(JList([i \in 1..Len(j.c) |-> JStr(<<j.c[i]>>)]))
    [] j.t = "dict" -> Value(JList([i \in 1..Len(j.kv) |-> JStr(KeyChars(j.kv[i].k))]))
    [] OTHER -> Raised

\* len(x), or -1 for TypeError
PyLen(j) ==
  CASE j.t = "list" -> Len(j.s)
    [] j.t = "str" -> Len(j.c)
    [] j.t = "dict" -> Len(j.kv)
    [] OTHER -> -1

\* x[i] for a non-negative integer i: IndexError, KeyError or TypeError raise
PyIndex(j, i) ==
  CASE j.t = "list" -> IF i < Len(j.s) THEN Value(j.s[i + 1]) ELSE Raised
    [] j.t = "str" -> IF i < Len(j.c) THEN Value(JStr(<<j.c[i + 1]>>)) ELSE Raised
    [] OTHER -> Raised

\* k in d, and d.get(k, default), on a dict d
HasKey(d, k) == \E i \in 1..Len(d.kv) : d.kv[i].k = k
Get(d, k, default) ==
  IF HasKey(d, k) THEN d.kv[CHOOSE i \in 1..Len(d.kv) : d.kv[i].k = k].val ELSE default

\* ------------------------------------------------------------------------
\* str.replace(old, ""): leftmost non-overlapping occurrences, one pass
\* ------------------------------------------------------------------------
TagIt == <<"{", "i", "t", "}">>
TagEndIt == <<"{", "/", "i", "t", "}">>

OccursAt(s, old, i) ==
  /\ i + Len(old) - 1 <= Len(s)
  /\ SubSeq(s, i, i + Len(old) - 1) = old

Contains(s, old) == \E i \in 1..Len(s) : OccursAt(s, old, i)

RECURSIVE ReplaceFrom(_, _, _)
ReplaceFrom(s, old, i) ==
  IF i > Len(s) THEN <<>>
  ELSE IF OccursAt(s, old, i) THEN ReplaceFrom(s, old, i + Len(old))
  ELSE <<s[i]>> \o ReplaceFrom(s, old, i + 1)

Replace(s, old) == ReplaceFrom(s, old, 1)

\* A slip that removes only the opening marker.
StripTagsOpenOnly(s) == Replace(s, TagIt)

\* example_text.replace("{it}", "").replace("{/it}", "")
StripTags(s) == Replace(Replace(s, TagIt), TagEndIt)

InSeq(x, s) == \E i \in 1..Len(s) : s[i] = x

\* ------------------------------------------------------------------------
\* fetch_dictionary_data: the walk over def / sseq / dt / vis
\* An accumulator is [raised, examples]; raised means an uncaught exception.
\* ------------------------------------------------------------------------
Acc(exs) == [raised |-> FALSE, examples |-> exs]
AccRaised == [raised |-> TRUE, examples |-> <<>>]

\* A slip that drops the "not in examples" test.
AddExampleNoDedup(text, examples) ==
  IF text # <<>> THEN Append(examples, text) ELSE examples

\* if example_text and example_text not in examples: examples.append(...)
AddExample(text, examples) ==
  IF text # <<>> /\ ~InSeq(text, examples) THEN Append(examples, text) ELSE examples

\* The body of "for ex in dt_item[1]"
ExStep(ex, acc) ==
  IF ex.t # "dict" THEN AccRaised
  ELSE LET raw == Get(ex, "t", EmptyStr)
       IN IF raw.t # "str" THEN AccRaised
          ELSE Acc(AddExample(StripTags(raw.c), acc.examples))

RECURSIVE VisLoop(_, _, _)
VisLoop(exs, i, acc) ==
  IF acc.raised \/ i > Len(exs) THEN acc
  ELSE VisLoop(exs, i + 1, ExStep(exs[i], acc))

\* The body of "for dt_item in dt_items"
DtStep(dt_item, acc) ==
  IF ~Truthy(dt_item) THEN acc
  ELSE LET head == PyIndex(dt_item, 0)
       IN IF head.raised THEN AccRaised
          ELSE IF ~(head.val.t = "str" /\ head.val.c = KeyVis) THEN acc
          ELSE LET body == PyIndex(dt_item, 1)
               IN IF body.raised THEN AccRaised
                  ELSE LET it == PyIter(body.val)
                       IN IF it.raised THEN AccRaised
                          ELSE VisLoop(it.val.s, 1, acc)

RECURSIVE DtLoop(_, _, _)
DtLoop(dts, i, acc) ==
  IF acc.raised \/ i > Len(dts) THEN acc
  ELSE DtLoop(dts, i + 1, DtStep(dts[i], acc))

\* The body of "for sense_entry in sense_group"
SenseStep(sense_entry, acc) ==
  IF PyLen(sense_entry) = -1 THEN AccRaised
  ELSE IF PyLen(sense_entry) < 2 THEN acc
  ELSE LET sense_info == PyIndex(sense_entry, 1)
       IN IF sense_info.raised THEN AccRaised
          ELSE IF sense_info.val.t # "dict" THEN acc
          ELSE LET it == PyIter(Get(sense_info.val, "dt", EmptyList))
               IN IF it.raised THEN AccRaised
                  ELSE DtLoop(it.val.s, 1, acc)

RECURSIVE SenseLoop(_, _, _)
SenseLoop(ses, i, acc) ==
  IF acc.raised \/ i > Len(ses) THEN acc
  ELSE SenseLoop(ses, i + 1, SenseStep(ses[i], acc))

\* The body of "for sense_group in sseq"
GroupStep(sense_group, acc) ==
  LET it == PyIter(sense_group)
  IN IF it.raised THEN AccRaised ELSE SenseLoop(it.val.s, 1, acc)

RECURSIVE GroupLoop(_, _, _)
GroupLoop(gs, i, acc) ==
  IF acc.raised \/ i > Len(gs) THEN acc
  ELSE GroupLoop(gs, i + 1, GroupStep(gs[i], acc))

\* The body of "for d in first_entry.get('def', [])"
DefStep(d, acc) ==
  IF d.t # "dict" THEN AccRaised
  ELSE LET it == PyIter(Get(d, "sseq", EmptyList))
       IN IF it.raised THEN AccRaised ELSE GroupLoop(it.val.s, 1, acc)

RECURSIVE DefLoop(_, _, _)
DefLoop(ds, i, acc) ==
  IF acc.raised \/ i > Len(ds) THEN acc
  ELSE DefLoop(ds, i + 1, DefStep(ds[i], acc))

Examples(first_entry) ==
  LET it == PyIter(Get(first_entry, "def", EmptyList))
  IN IF it.raised THEN AccRaised ELSE DefLoop(it.val.s, 1, Acc(<<>>))

\* A slip that takes the last short definition.
DescriptionLast(first_entry) ==
  LET shortdef_list == Get(first_entry, "shortdef", EmptyList)
  IN IF ~Truthy(shortdef_list) THEN Value(EmptyStr)
     ELSE PyIndex(shortdef_list, PyLen(shortdef_list) - 1)

\* shortdef_list[0] if shortdef_list else ""
Description(first_entry) ==
  LET shortdef_list == Get(first_entry, "shortdef", EmptyList)
  IN IF ~Truthy(shortdef_list) THEN Value(EmptyStr)
     ELSE PyIndex(shortdef_list, 0)

\* What one call does: return an entry, return None (with the level of the
\* message it logs), or let an exception escape.
NoEntry(level) ==
  [kind |-> "none", log |-> level, word |-> "", description |-> JNull, examples |-> <<>>]
Escapes ==
  [kind |-> "raise", log |-> "", word |-> "", description |-> JNull, examples |-> <<>>]
EntryOf(word, description, examples) ==
  [kind |-> "entry", log |-> "", word |-> word, description |-> description,
   examples |-> examples]

\* resp is the HTTP response: [decodable, json].
fetch_dictionary_data(word, resp) ==
  IF ~resp.decodable THEN NoEntry("error")
  ELSE LET entries == resp.json
       IN IF ~Truthy(entries) \/ entries.t # "list" THEN NoEntry("warning")
          ELSE LET first_entry == entries.s[1]
               IN IF first_entry.t # "dict" \/ ~HasKey(first_entry, "meta")
                  THEN NoEntry("warning")
                  ELSE LET description == Description(first_entry)
                       IN IF description.raised THEN Escapes
                          ELSE LET acc == Examples(first_entry)
                               IN IF acc.raised THEN Escapes
                                  ELSE EntryOf(word, description.val, acc.examples)

\* ------------------------------------------------------------------------
\* Dictionary API responses the lookups are run on
\* ------------------------------------------------------------------------
Body(j) == [decodable |-> TRUE, json |-> j]
Undecodable == [decodable |-> FALSE, json |-> JNull]

ChA == <<"a">>
ChB == <<"b">>
Meta == JDict(<<KV("id", JStr(ChA))>>)

\* Raw example texts: concatenations of at most MaxPieces fragments, so that
\* whole markers, split markers and nested markers all occur.
Pieces == {ChA, TagIt, TagEndIt, <<"{", "i">>, <<"t", "}">>, <<"{", "/">>,
           <<"i", "t", "}">>}

RECURSIVE TextsOf(_)
TextsOf(n) ==
  IF n = 0 THEN {<<>>}
  ELSE LET shorter == TextsOf(n - 1)
       IN shorter \cup {s \o p : s \in shorter, p \in Pieces}

Texts == TextsOf(MaxPieces)

Ex(text) == JDict(<<KV("t", JStr(text))>>)
ExNoText == JDict(<<KV("aq", JStr(ChA))>>)
Vis(exs) == JList(<<JStr(KeyVis), JList(exs)>>)
TextItem == JList(<<JStr(<<"t", "e", "x", "t">>), JStr(ChA)>>)
Sense(dts) == JList(<<JStr(<<"s", "e", "n", "s", "e">>), JDict(<<KV("dt", JList(dts))>>)>>)
Def(groups) == JDict(<<KV("sseq", JList(groups))>>)
EntryWith(shortdef, defs) ==
  JDict(<<KV("meta", Meta), KV("shortdef", shortdef), KV("def", defs)>>)
EntryDefOnly(defs) == JDict(<<KV("meta", Meta), KV("def", defs)>>)
EntryShortdefOnly(shortdef) == JDict(<<KV("meta", Meta), KV("shortdef", shortdef)>>)
DefsOfDts(dts) == JList(<<Def(<<JList(<<Sense(dts)>>)>>)>>)
DefsOfExs(exs) == DefsOfDts(<<TextItem, Vis(exs)>>)
ShortA == JList(<<JStr(ChA), JStr(ChB)>>)

\* One example with every raw text.
TextResponses == {Body(JList(<<EntryWith(ShortA, DefsOfExs(<<Ex(text)>>))>>)) : text \in Texts}

\* Several examples, equal or unequal before and after stripping, laid out
\* in one vis list, in one vis list each, or in one def each.
SmallExs == {Ex(ChA), Ex(TagIt \o ChA), Ex(ChA \o TagEndIt), Ex(ChB), Ex(<<>>),
             Ex(TagIt), ExNoText}
ExLists == UNION {[1..n -> SmallExs] : n \in 1..MaxEx}
OneVisEach(exs) == DefsOfDts([i \in 1..Len(exs) |-> Vis(<<exs[i]>>)])
OneDefEach(exs) == JList([i \in 1..Len(exs) |-> Def(<<JList(<<Sense(<<Vis(<<exs[i]>>)>>)>>)>>)])
MultiResponses ==
  {Body(JList(<<EntryDefOnly(DefsOfExs(exs))>>)) : exs \in ExLists}
  \cup {Body(JList(<<EntryDefOnly(OneVisEach(exs))>>)) : exs \in ExLists}
  \cup {Body(JList(<<EntryDefOnly(OneDefEach(exs))>>)) : exs \in ExLists}

\* The shortdef of the first entry, and a second entry that differs from it.
Shortdefs == {EmptyList, JNull, JList(<<JStr(ChA)>>), ShortA, JList(<<JStr(ChB), JStr(ChA)>>),
              JStr(<<"b", "a">>), EmptyStr, JDict(<<KV("k", JStr(ChA))>>), JInt(1), JInt(0)}
OtherEntry == EntryWith(JList(<<JStr(<<"o">>)>>), DefsOfExs(<<Ex(<<"o">>)>>))
ShortdefResponses ==
  {Body(JList(<<EntryWith(sd, DefsOfExs(<<Ex(ChA)>>)), OtherEntry>>)) : sd \in Shortdefs}
  \cup {Body(JList(<<EntryShortdefOnly(sd)>>)) : sd \in Shortdefs}
  \cup {Body(JList(<<JDict(<<KV("meta", Meta)>>), OtherEntry>>))}

\* Bodies that are not an entry list.
NoEntryResponses ==
  {Undecodable, Body(EmptyList), Body(JNull), Body(JInt(0)), Body(EmptyStr),
   Body(EmptyDict), Body(JDict(<<KV("meta", Meta)>>)), Body(JStr(ChA)), Body(JInt(7)),
   Body(JList(<<JStr(ChA)>>)), Body(JList(<<JNull>>)), Body(JList(<<EmptyList>>)),
   Body(JList(<<JDict(<<KV("shortdef", ShortA)>>)>>)), Body(JList(<<EmptyDict>>)),
   Body(JList(<<JStr(ChA), OtherEntry>>))}

\* First entries whose def / sseq / dt / vis parts have another shape than
\* the list-or-dict the walk expects.
OddParts == {JNull, JInt(3), JStr(<<>>), JStr(ChA), JStr(<<"a", "b">>), EmptyList,
             EmptyDict, JDict(<<KV("k", JStr(ChA))>>), JList(<<JInt(3)>>),
             JList(<<JStr(ChA)>>), JList(<<JStr(KeyVis)>>), JStr(KeyVis),
             JList(<<JStr(KeyVis), JInt(3)>>), JList(<<JStr(KeyVis), JStr(ChA)>>),
             JList(<<JInt(3), JInt(4)>>), JList(<<EmptyDict, EmptyDict>>)}
OddDefs ==
  OddParts                                                         \* def itself
  \cup {JList(<<d>>) : d \in OddParts}                             \* a d
  \cup {JList(<<JDict(<<KV("sseq", q)>>)>>) : q \in OddParts}           \* sseq
  \cup {JList(<<Def(<<g>>)>>) : g \in OddParts}                    \* a sense_group
  \cup {JList(<<Def(<<JList(<<e>>)>>)>>) : e \in OddParts}         \* a sense_entry
  \cup {JList(<<Def(<<JList(<<JList(<<JStr(ChA), i>>)>>)>>)>>) : i \in OddParts}
  \cup {JList(<<Def(<<JList(<<JList(<<JStr(ChA), JDict(<<KV("dt", x)>>)>>)>>)>>)>>)
          : x \in OddParts}                                        \* dt
  \cup {DefsOfDts(<<x, Vis(<<Ex(ChA)>>)>>) : x \in OddParts}       \* a dt_item
  \cup {DefsOfDts(<<Vis(<<Ex(ChA)>>), JList(<<JStr(KeyVis), x>>)>>) : x \in OddParts}
  \cup {DefsOfExs(<<Ex(ChA), x>>) : x \in OddParts}                \* an ex
  \cup {DefsOfExs(<<Ex(ChA), JDict(<<KV("t", x)>>)>>) : x \in OddParts} \* a t
OddResponses == {Body(JList(<<EntryWith(ShortA, defs)>>)) : defs \in OddDefs}

Responses ==
  TextResponses \cup MultiResponses \cup ShortdefResponses \cup NoEntryResponses
  \cup OddResponses

\* The first entry of a response that has one.
HasFirstEntry(resp) ==
  /\ resp.decodable
  /\ resp.json.t = "list"
  /\ Len(resp.json.s) > 0
  /\ resp.json.s[1].t = "dict"
  /\ HasKey(resp.json.s[1], "meta")

\* A handful of responses, one of each outcome, for whole runs.
PipelineResponses ==
  {Undecodable, Body(EmptyList), Body(JList(<<JStr(ChA)>>)),
   Body(JList(<<EntryWith(ShortA, DefsOfExs(<<Ex(TagIt \o ChA), Ex(ChA)>>)), OtherEntry>>)),
   Body(JList(<<EntryDefOnly(EmptyList)>>)),
   Body(JList(<<EntryWith(ShortA, JList(<<JStr(ChA)>>))>>))}

\* ------------------------------------------------------------------------
\* The saved-word list API
\* ------------------------------------------------------------------------
Words == {"w1", "w2"}
\* An item is a dict; has_word tells whether it has the key "word".
Item(w) == [has_word |-> TRUE, word |-> w]
NoWordItem == [has_word |-> FALSE, word |-> ""]
Items == {Item(w) : w \in Words \cup {""}} \cup {NoWordItem}
ItemLists == UNION {[1..n -> Items] : n \in 0..MaxItems}
TotalPagesValues == (-1)..MaxPages

\* item.get("word", "")
ItemWord(item) == IF item.has_word THEN item.word ELSE ""

RECURSIVE ExtractAllFrom(_, _)
ExtractAllFrom(items, i) ==
  IF i > Len(items) THEN <<>>
  ELSE <<ItemWord(items[i])>> \o ExtractAllFrom(items, i + 1)

\* A slip that drops the "if word" test.
ExtractAll(items) == ExtractAllFrom(items, 1)

RECURSIVE ExtractFrom(_, _)
ExtractFrom(items, i) ==
  IF i > Len(items) THEN <<>>
  ELSE (IF ItemWord(items[i]) # "" THEN <<ItemWord(items[i])>> ELSE <<>>)
       \o ExtractFrom(items, i + 1)

\* for item in items: word = item.get("word", ""); if word: all_words.append(word)
ExtractWords(items) == ExtractFrom(items, 1)

\* A slip that goes on after an empty page.
NeverBreaks(items) == FALSE

\* if not items: break
PageBreaks(items) == Len(items) = 0

\* ------------------------------------------------------------------------
\* State
\* ------------------------------------------------------------------------
VARIABLES
  pc,               \* where the script is
  env,              \* MW_EMAIL, MW_PASSWORD, DICT_API_KEY: "unset", "empty" or "set"
  exit_status,      \* -1 while running, then the process's exit status
  failure,          \* what ended the run early, "" if nothing did
  browser,          \* "none", "running" or "quit"
  selenium_cookies, \* "none" or "cookies"
  total_pages,      \* totalPages of the first response
  page,             \* the loop variable of fetch_saved_words
  all_words,        \* the saved words gathered
  initial_requests, \* number of page-1 requests made to read totalPages
  requested,        \* page numbers requested by the loop, in order
  page_log,         \* the items of each loop response, in order
  word_idx,         \* position of the main loop in all_words
  formatted_words,  \* the entries gathered
  lookup_log,       \* one [word, kind] per call of fetch_dictionary_data
  resp,             \* the response of the last lookup
  result,           \* what the last lookup did
  outfile           \* <<>> until dictionary_output.json is written, then <<report>>

vars == <<pc, env, exit_status, failure, browser, selenium_cookies, total_pages, page,
          all_words, initial_requests, requested, page_log, word_idx, formatted_words,
          lookup_log, resp, result, outfile>>

EnvValues == {"unset", "empty", "set"}
NotCalled ==
  [kind |-> "not_called", log |-> "", word |-> "", description |-> JNull, examples |-> <<>>]

\* A slip that forgets DICT_API_KEY.
EnvMissingNoKey(e) == e.MW_EMAIL # "set" \/ e.MW_PASSWORD # "set"

\* not MW_EMAIL or not MW_PASSWORD or not DICT_API_KEY
EnvMissing(e) == e.MW_EMAIL # "set" \/ e.MW_PASSWORD # "set" \/ e.DICT_API_KEY # "set"

Init ==
  /\ pc = "start"
  /\ env \in [MW_EMAIL : EnvValues, MW_PASSWORD : EnvValues, DICT_API_KEY : EnvValues]
  /\ exit_status = -1
  /\ failure = ""
  /\ browser = "none"
  /\ selenium_cookies = "none"
  /\ total_pages = 0
  /\ page = 1
  /\ all_words = <<>>
  /\ initial_requests = 0
  /\ requested = <<>>
  /\ page_log = <<>>
  /\ word_idx = 1
  /\ formatted_words = <<>>
  /\ lookup_log = <<>>
  /\ resp = Undecodable
  /\ result = NotCalled
  /\ outfile = <<>>

loginVars == <<browser, selenium_cookies>>
fetchVars == <<total_pages, page, all_words, initial_requests, requested, page_log>>
lookupVars == <<word_idx, formatted_words, lookup_log, resp, result>>

\* lines 46-51
CheckEnv ==
  /\ pc = "start"
  /\ IF EnvMissing(env)
     THEN pc' = "exited" /\ exit_status' = 1 /\ failure' = "env"
     ELSE pc' = "login_start" /\ UNCHANGED <<exit_status, failure>>
  /\ UNCHANGED <<env, loginVars, fetchVars, lookupVars, outfile>>

\* An uncaught exception ends the script with status 1.
Dies(why) == pc' = "crashed" /\ exit_status' = 1 /\ failure' = why

\* A slip that leaves the browser running (no finally).
BrowserAfterFailureLeftRunning == "running"

\* finally: driver.quit()
BrowserAfterFailure == "quit"

\* lines 63-65: webdriver.Chrome(...) is outside the try block
StartBrowser ==
  /\ pc = "login_start"
  /\ \E started \in BOOLEAN :
       IF started
       THEN pc' = "login_form" /\ browser' = "running" /\ UNCHANGED <<exit_status, failure>>
       ELSE Dies("browser_start") /\ UNCHANGED browser
  /\ UNCHANGED <<env, selenium_cookies, fetchVars, lookupVars, outfile>>

\* A step of the try block: it goes on, or the exception passes the finally.
LoginStep(here, next, why) ==
  /\ pc = here
  /\ \E found \in BOOLEAN :
       IF found
       THEN pc' = next /\ UNCHANGED <<exit_status, failure, browser>>
       ELSE Dies(why) /\ browser' = BrowserAfterFailure
  /\ UNCHANGED <<env, selenium_cookies, fetchVars, lookupVars, outfile>>

\* lines 69-76: the wait for ul-email, then ul-password and ul-login
LoginForm == LoginStep("login_form", "login_wait_url", "login_element")

\* line 79
WaitUrlChange == LoginStep("login_wait_url", "login_saved_words", "login_url")

\* lines 83-93
VisitSavedWords ==
  /\ pc = "login_saved_words"
  /\ \E found \in BOOLEAN :
       IF found
       THEN /\ pc' = "fetch_page1"
            /\ selenium_cookies' = "cookies"
            /\ browser' = "quit"
            /\ UNCHANGED <<exit_status, failure>>
       ELSE Dies("login_body") /\ browser' = BrowserAfterFailure
                               /\ UNCHANGED selenium_cookies
  /\ UNCHANGED <<env, fetchVars, lookupVars, outfile>>

\* lines 130-135: the request that reads totalPages
FetchPage1 ==
  /\ pc = "fetch_page1"
  /\ initial_requests' = initial_requests + 1
  /\ \/ \E tp \in TotalPagesValues :
          /\ total_pages' = tp
          /\ pc' = "fetch_loop"
          /\ UNCHANGED <<exit_status, failure>>
     \/ Dies("list_api") /\ UNCHANGED total_pages
  /\ UNCHANGED <<env, loginVars, page, all_words, requested, page_log, lookupVars, outfile>>

RECURSIVE TotalItems(_)
TotalItems(log) == IF log = <<>> THEN 0 ELSE Len(Head(log)) + TotalItems(Tail(log))

\* lines 137-149: one iteration of the loop
FetchPage ==
  /\ pc = "fetch_loop"
  /\ page <= total_pages
  /\ requested' = Append(requested, page)
  /\ \/ \E items \in ItemLists :
          /\ TotalItems(page_log) + Len(items) <= MaxTotalItems
          /\ page_log' = Append(page_log, items)
          /\ IF PageBreaks(items)
             THEN pc' = "lookup" /\ UNCHANGED <<all_words, page>>
             ELSE /\ all_words' = all_words \o ExtractWords(items)
                  /\ page' = page + 1
                  /\ pc' = "fetch_loop"
          /\ UNCHANGED <<exit_status, failure>>
     \/ Dies("list_api") /\ UNCHANGED <<page_log, all_words, page>>
  /\ UNCHANGED <<env, loginVars, total_pages, initial_requests, lookupVars, outfile>>

\* lines 151-152: the range is exhausted
FetchReturn ==
  /\ pc = "fetch_loop"
  /\ page > total_pages
  /\ pc' = "lookup"
  /\ UNCHANGED <<env, exit_status, failure, loginVars, fetchVars, lookupVars, outfile>>

\* lines 219-224: one iteration of the main loop on response r
Lookup(r) ==
  /\ pc = "lookup"
  /\ word_idx <= Len(all_words)
  /\ LET word == all_words[word_idx]
         entry == fetch_dictionary_data(word, r)
     IN /\ resp' = r
        /\ result' = entry
        /\ lookup_log' = Append(lookup_log, [word |-> word, kind |-> entry.kind])
        /\ IF entry.kind = "raise"
           THEN Dies("lookup") /\ UNCHANGED <<formatted_words, word_idx>>
           ELSE /\ formatted_words' =
                     IF entry.kind = "entry"
                     THEN Append(formatted_words,
                                 [word |-> entry.word, description |-> entry.description,
                                  examples |-> entry.examples])
                     ELSE formatted_words
                /\ word_idx' = word_idx + 1
                /\ UNCHANGED <<pc, exit_status, failure>>
  /\ UNCHANGED <<env, loginVars, fetchVars, outfile>>

\* A slip that counts the saved words instead of the entries.
final_output_counts_saved ==
  [total_words |-> Len(all_words), data |-> formatted_words]

\* lines 229-232
final_output ==
  [total_words |-> Len(formatted_words), data |-> formatted_words]

\* lines 229-246
WriteReport ==
  /\ pc = "lookup"
  /\ word_idx > Len(all_words)
  /\ outfile' = <<final_output>>
  /\ pc' = "done"
  /\ exit_status' = 0
  /\ UNCHANGED <<env, failure, loginVars, fetchVars, lookupVars>>

Next ==
  \/ CheckEnv
  \/ StartBrowser
  \/ LoginForm
  \/ WaitUrlChange
  \/ VisitSavedWords
  \/ FetchPage1
  \/ FetchPage
  \/ FetchReturn
  \/ \E r \in PipelineResponses : Lookup(r)
  \/ WriteReport

Spec == Init /\ [][Next]_vars

\* ------------------------------------------------------------------------
\* fetch_dictionary_data on every response: the run from the point where
\* fetch_saved_words has returned a one-word list.
\* ------------------------------------------------------------------------
InitLookup ==
  /\ pc = "lookup"
  /\ env = [MW_EMAIL |-> "set", MW_PASSWORD |-> "set", DICT_API_KEY |-> "set"]
  /\ exit_status = -1
  /\ failure = ""
  /\ browser = "quit"
  /\ selenium_cookies = "cookies"
  /\ total_pages = 1
  /\ page = 2
  /\ \E w \in Words : all_words = <<w>> /\ page_log = <<<<Item(w)>>>>
  /\ initial_requests = 1
  /\ requested = <<1>>
  /\ word_idx = 1
  /\ formatted_words = <<>>
  /\ lookup_log = <<>>
  /\ resp = Undecodable
  /\ result = NotCalled
  /\ outfile = <<>>

NextLookup ==
  \/ \E r \in Responses : Lookup(r)
  \/ WriteReport

SpecLookup == InitLookup /\ [][NextLookup]_vars

\* ------------------------------------------------------------------------
\* Properties
\* ------------------------------------------------------------------------
\* fetch_saved_words has returned (the main loop, the report and a crash in
\* the main loop all come after it).
FetchReturned == pc \in {"lookup", "done"} \/ failure = "lookup"

RECURSIVE WordItems(_)
WordItems(log) ==
  IF log = <<>> THEN 0
  ELSE Cardinality({i \in 1..Len(Head(log)) : ItemWord(Head(log)[i]) # ""})
       + WordItems(Tail(log))

HasWordlessItem == \E p \in 1..Len(page_log) : \E i \in 1..Len(page_log[p]) :
                      ItemWord(page_log[p][i]) = ""

\* C1 as stated: the list fetch_saved_words returns is as long as the sum of
\* the item counts of the pages before the first empty page, items without
\* a word included.
C1_Original == FetchReturned => Len(all_words) = TotalItems(page_log)

\* C1 amended: the list fetch_saved_words returns is as long as the number
\* of items with a non-empty word field on the pages before the first empty
\* page; items whose word is missing or empty are not counted.
C1_Amended == FetchReturned => Len(all_words) = WordItems(page_log)

C1_Witness ==
  /\ FetchReturned
  /\ HasWordlessItem
  /\ Len(all_words) >= 1
  /\ Len(page_log) >= 2
  /\ page_log[Len(page_log)] = <<>>

\* C2: after the initial page-1 request, the loop requests pages 1, 2, 3, ...
\* in increasing order, never a page above totalPages, and no page after a
\* response without items: the loop has ended and the words are returned.
C2_Requests ==
  /\ requested # <<>> => initial_requests = 1
  /\ \A i \in 1..Len(requested) : requested[i] = i /\ requested[i] <= total_pages
  /\ Len(page_log) <= Len(requested)
  /\ \A i \in 1..Len(page_log) :
       page_log[i] = <<>> => (Len(requested) = i /\ FetchReturned)

C2_Witness ==
  /\ requested = <<1>>
  /\ page_log = <<<<>>>>
  /\ total_pages > 1
  /\ pc = "done"

\* The raw example texts of a well-formed first entry, in the order of the
\* def / sseq / sense / dt / vis nesting.
RECURSIVE Flat(_)
Flat(ss) == IF ss = <<>> THEN <<>> ELSE Head(ss) \o Flat(Tail(ss))

Part(d, k) == Get(d, k, EmptyList).s
IsVis(dt_item) == dt_item.s[1].c = KeyVis
VisTexts(dt_item) ==
  [i \in 1..Len(dt_item.s[2].s) |-> Get(dt_item.s[2].s[i], "t", EmptyStr).c]
SenseTexts(sense) ==
  LET dts == Part(sense.s[2], "dt")
  IN Flat([i \in 1..Len(dts) |-> IF IsVis(dts[i]) THEN VisTexts(dts[i]) ELSE <<>>])
GroupTexts(g) == Flat([i \in 1..Len(g.s) |-> SenseTexts(g.s[i])])
DefTexts(d) == Flat([i \in 1..Len(Part(d, "sseq")) |-> GroupTexts(Part(d, "sseq")[i])])
EntryTexts(e) == Flat([i \in 1..Len(Part(e, "def")) |-> DefTexts(Part(e, "def")[i])])

WellFormed(r) == r \in TextResponses \cup MultiResponses
RawTexts(r) == EntryTexts(r.json.s[1])

\* The indices of a sequence that hold a non-empty value not seen before.
FirstOccurrences(ts) ==
  {i \in 1..Len(ts) : ts[i] # <<>> /\ \A j \in 1..(i - 1) : ts[j] # ts[i]}

\* The values at a set of indices, in index order.
RECURSIVE Pick(_, _, _)
Pick(ts, idx, i) ==
  IF i > Len(ts) THEN <<>>
  ELSE (IF i \in idx THEN <<ts[i]>> ELSE <<>>) \o Pick(ts, idx, i + 1)

Stripped(ts) == [i \in 1..Len(ts) |-> Replace(Replace(ts[i], TagIt), TagEndIt)]

\* C3: the examples of a returned entry hold no two equal strings and never
\* the empty string; each distinct stripped example text of the response is
\* there once, at the place of its first occurrence.
C3_Deduplicated ==
  result.kind = "entry" =>
    /\ \A i, j \in 1..Len(result.examples) :
         result.examples[i] = result.examples[j] => i = j
    /\ \A i \in 1..Len(result.examples) : result.examples[i] # <<>>
    /\ WellFormed(resp) =>
         result.examples =
           Pick(Stripped(RawTexts(resp)), FirstOccurrences(Stripped(RawTexts(resp))), 1)

C3_Witness ==
  /\ result.kind = "entry"
  /\ WellFormed(resp)
  /\ RawTexts(resp) = <<TagIt \o ChA, ChA>>
  /\ result.examples = <<ChA>>

NoMarker(s) == ~Contains(s, TagIt) /\ ~Contains(s, TagEndIt)

\* Every "{" of the text begins a whole marker.
BracesBeginMarkers(s) ==
  \A i \in 1..Len(s) : s[i] = "{" => (OccursAt(s, TagIt, i) \/ OccursAt(s, TagEndIt, i))

\* C4 as stated: no stored example contains "{it}" or "{/it}", also when
\* the markers of the raw text are nested or overlap.
C4_Original ==
  result.kind = "entry" => \A i \in 1..Len(result.examples) : NoMarker(result.examples[i])

\* C4 amended: when every "{" of the raw example texts begins a whole
\* "{it}" or "{/it}" (markers neither nested nor overlapping), no stored
\* example contains "{it}" or "{/it}", nor any "{".
C4_Amended ==
  (result.kind = "entry" /\ WellFormed(resp)
     /\ \A i \in 1..Len(RawTexts(resp)) : BracesBeginMarkers(RawTexts(resp)[i]))
  => \A i \in 1..Len(result.examples) :
       /\ NoMarker(result.examples[i])
       /\ \A k \in 1..Len(result.examples[i]) : result.examples[i][k] # "{"

C4_Witness ==
  /\ result.kind = "entry"
  /\ WellFormed(resp)
  /\ RawTexts(resp) = <<TagIt \o ChA \o TagEndIt>>
  /\ result.examples = <<ChA>>

\* C5: in the report written to the output file, total_words is the number
\* of elements of data.
C5_TotalWords ==
  outfile # <<>> => outfile[1].total_words = Len(outfile[1].data)

C5_Witness ==
  /\ outfile # <<>>
  /\ Len(outfile[1].data) >= 1
  /\ Len(all_words) > Len(outfile[1].data)

AnyUnsetOrEmpty == \E k \in DOMAIN env : env[k] \in {"unset", "empty"}

\* C6: with MW_EMAIL, MW_PASSWORD or DICT_API_KEY unset or empty the run
\* exits with status 1 at once: no browser, no list request, no lookup, no
\* output file.
C6_MissingEnvExits ==
  AnyUnsetOrEmpty =>
    /\ pc \in {"start", "exited"}
    /\ pc = "exited" => exit_status = 1
    /\ browser = "none"
    /\ initial_requests = 0
    /\ requested = <<>>
    /\ lookup_log = <<>>
    /\ outfile = <<>>

C6_Witness ==
  /\ pc = "exited"
  /\ exit_status = 1
  /\ env = [MW_EMAIL |-> "set", MW_PASSWORD |-> "set", DICT_API_KEY |-> "empty"]

\* C7: no dictionary response is fatal: a lookup never lets an exception
\* escape, a word without a usable response is skipped with a log message,
\* and the run goes on to the next word and the report.
C7_NeverFatal ==
  /\ result.kind # "raise"
  /\ failure # "lookup"
  /\ result.kind = "none" => result.log \in {"error", "warning"}

LoginFailed == failure \in {"login_element", "login_url", "login_body"}
DataStageBegun ==
  \/ pc \in {"fetch_page1", "fetch_loop", "lookup", "done"}
  \/ initial_requests > 0
  \/ requested # <<>>
  \/ lookup_log # <<>>

\* C8: when a login element, the URL change or the saved-words body is not
\* found, the run ends: browser quit, no cookies, no list request, no lookup,
\* no output file.  The browser is quit before the data stage begins.
C8_LoginFatal ==
  /\ LoginFailed =>
       /\ pc = "crashed"
       /\ exit_status = 1
       /\ browser = "quit"
       /\ selenium_cookies = "none"
       /\ initial_requests = 0
       /\ requested = <<>>
       /\ lookup_log = <<>>
       /\ outfile = <<>>
  /\ DataStageBegun => browser = "quit"

C8_Witness ==
  /\ failure = "login_url"
  /\ browser = "quit"
  /\ pc = "crashed"

\* The description C9 expects of a first entry whose shortdef is a list or
\* is absent.
ShortdefIsListOrAbsent(e) == Get(e, "shortdef", EmptyList).t = "list"
ExpectedDescription(e) ==
  IF Len(Part(e, "shortdef")) > 0 THEN Part(e, "shortdef")[1] ELSE EmptyStr

LastLookedUp == lookup_log[Len(lookup_log)].word

\* C9: for every response whose first entry is a dict with a meta key the
\* call returns an entry, with the looked-up word and with the first element
\* of that entry's shortdef list ("" when absent or empty) as description;
\* later entries contribute nothing.
C9_FirstEntryOnly ==
  (result.kind # "not_called" /\ HasFirstEntry(resp)) =>
    /\ result.kind = "entry"
    /\ result.word = LastLookedUp
    /\ ShortdefIsListOrAbsent(resp.json.s[1]) =>
         result.description = ExpectedDescription(resp.json.s[1])
    /\ result = fetch_dictionary_data(LastLookedUp, Body(JList(<<resp.json.s[1]>>)))

\* What remains of C9 beside the escaping exception: whenever the call
\* returns on such a response, it returns the entry C9 describes.
C9_WhenReturned ==
  (result.kind \notin {"not_called", "raise"} /\ HasFirstEntry(resp)) =>
    /\ result.kind = "entry"
    /\ result.word = LastLookedUp
    /\ ShortdefIsListOrAbsent(resp.json.s[1]) =>
         result.description = ExpectedDescription(resp.json.s[1])
    /\ result = fetch_dictionary_data(LastLookedUp, Body(JList(<<resp.json.s[1]>>)))

RunEnded == pc \in {"done", "crashed"}
LookedUp == [i \in 1..Len(lookup_log) |-> lookup_log[i].word]
IsEntry(l) == l.kind = "entry"
WordsWithEntry ==
  LET hits == SelectSeq(lookup_log, IsEntry) IN [i \in 1..Len(hits) |-> hits[i].word]

\* C10: every occurrence of a word in the fetched list is looked up once, in
\* list order; the report's data is the subsequence of the occurrences whose
\* lookup returned an entry, never longer than the list.
C10_EachWordOnce ==
  /\ LookedUp = SubSeq(all_words, 1, Len(lookup_log))
  /\ (RunEnded /\ FetchReturned) => LookedUp = all_words
  /\ outfile # <<>> =>
       /\ [i \in 1..Len(outfile[1].data) |-> outfile[1].data[i].word] = WordsWithEntry
       /\ Len(outfile[1].data) <= Len(all_words)

\* What remains of C10 beside the escaping exception: the lookups made are
\* a prefix of the list, and a run that writes the report has looked up the
\* whole list and reports the occurrences that have an entry.
C10_OnReport ==
  /\ LookedUp = SubSeq(all_words, 1, Len(lookup_log))
  /\ outfile # <<>> =>
       /\ LookedUp = all_words
       /\ [i \in 1..Len(outfile[1].data) |-> outfile[1].data[i].word] = WordsWithEntry
       /\ Len(outfile[1].data) <= Len(all_words)

====
